---- MODULE Spec2Model ----
(***************************************************************************)
(* ZotQuery's mirroring / caching / indexing core:                         *)
(*   zotquery/cache.py   - Cache, a key-value store on sqlite and JSON     *)
(*   zotquery/backend.py - ZotqueryBackend: clone of Zotero's database,    *)
(*                         item cache, full-text index files, is_fresh     *)
(* The specifications, over one set of variables:                          *)
(*   SpecCache - one Cache object, statement by statement (every commit    *)
(*               is a step, every statement may raise a storage error)     *)
(*   Spec      - the backend's clone, cache and is_fresh, one action per   *)
(*               property access or method, under a running clock          *)
(*   SpecIndex - every property and method of the backend, the two index   *)
(*               files included, at one reading of the clock               *)
(*   SpecResync, SpecPipeline - a resync by two processes, and a read of   *)
(*               an index path, step by step                               *)
(*   SpecRank, SpecDatum, SpecExtract - the pure functions, on inputs      *)
(*               drawn from bounded sets                                   *)
(***************************************************************************)
EXTENDS Integers, Sequences, FiniteSets, Bags, TLC

\* ------------------------------------------------------------------ bounds
MaxTime == 21        \* the clock stops advancing here
TickSecs == 10       \* seconds between two observable clock readings
MaxRows == 2         \* update_index_db is not called on a table this large
MaxPhrases == 2      \* phrases of a query, in a matchinfo buffer
MaxCols == 2         \* columns of the index, in a matchinfo buffer
MaxCount == 2        \* the largest hit count in a matchinfo buffer
MaxCreators == 2     \* creators of one item
MaxFields == 3       \* rows of itemData of one item

\* --------------------------------------------------------- program constants
SLACK == 10          \* backend.py:229  (cache_mod - clone_mod) > 10
SCHEMA_ID == 1       \* cache.py:32     INSERT INTO dbinfo VALUES (1, 1, 0)
SCHEMA_VERSION == 1  \* cache.py:32
SCHEMA_UPDATED == 0  \* cache.py:29,32  last_updated REAL DEFAULT 0.0

VARIABLES
    now,          \* time.time(), seconds
    src,          \* content of zotero.original_sqlite
    srcMod,       \* its st_mtime
    clone,        \* content of _clone_path (NoDb: no such file)
    cloneMod,     \* its st_mtime
    cacheFile,    \* committed content of _cache_path
    backupFile,   \* committed content of _cache_path + '.backup'
    ftsFile,      \* _fts_path
    foldedFile,   \* _fts_ascii_path
    cacheObj,     \* "None": backend._cache is None; "new": a Cache whose
                  \* _conn is None; "open": a Cache with a connection
    pending,      \* the connection's uncommitted transaction (a file image)
    pc,           \* position inside Cache.set / Cache.delete
    call,         \* arguments of the call in progress
    ret,          \* the last call that returned or raised
    absMap,       \* the map the cache is meant to implement (history)
    resync,       \* "clone" after update_clone, "done" once update_cache
                  \* has completed after it (history)
    procs         \* the processes of SpecResync, each with its position in
                  \* update_clone / update_cache and its own Cache handle

vars == <<now, src, srcMod, clone, cloneMod, cacheFile, backupFile, ftsFile,
          foldedFile, cacheObj, pending, pc, call, ret, absMap, resync,
          procs>>

\* ------------------------------------------------------------ item records
Keys == {"K1", "K2"}

\* backend.py:464-502: the OrderedDict get_all_items builds for one item
ItemA(k) ==
    [key |-> k, type |-> "book",
     creators |-> <<[family |-> "Doe", index |-> 0],
                    [family |-> "Roe", index |-> 1]>>,
     data |-> [title |-> "Café"]]

ItemB(k) ==
    [key |-> k, type |-> "article",
     creators |-> <<[family |-> "Roe", index |-> 0]>>,
     data |-> [title |-> "Cafe"]]

Values == {ItemA(k) : k \in Keys} \cup {ItemB(k) : k \in Keys}

Default == [default |-> TRUE]    \* the `default` argument of Cache.get
Unbound == [unbound |-> TRUE]    \* absMap: no value bound

\* ------------------------------------------------------------------- JSON
\* A JSON text is the sequence of its tokens.
Digits == <<"0", "1", "2">>

IntStr(i) == Digits[i + 1]

StrInt(s) == CHOOSE i \in 0..(Len(Digits) - 1) : Digits[i + 1] = s

\* json.dumps escapes non-ASCII characters (ensure_ascii)
JsonEscape(s) == IF s = "Café" THEN "Caf\\u00e9" ELSE s

JsonUnescape(s) == IF s = "Caf\\u00e9" THEN "Café" ELSE s

RECURSIVE DumpCreators(_)
DumpCreators(cs) ==
    IF cs = <<>> THEN <<>>
    ELSE <<"{", "family", JsonEscape(Head(cs).family),
           "index", IntStr(Head(cs).index), "}">> \o DumpCreators(Tail(cs))

\* cache.py:148  s = json.dumps(data)
dumps(v) ==
    <<"{", "key", JsonEscape(v.key), "type", JsonEscape(v.type),
      "creators", "[">> \o DumpCreators(v.creators) \o
    <<"]", "data", "{", "title", JsonEscape(v.data.title), "}", "}">>

RECURSIVE LoadCreators(_, _)
LoadCreators(s, i) ==
    IF s[i] = "]" THEN <<>>
    ELSE <<[family |-> JsonUnescape(s[i + 2]), index |-> StrInt(s[i + 4])]>>
         \o LoadCreators(s, i + 6)

\* cache.py:136,208,218  json.loads(r['value'])
loads(s) ==
    LET cs == LoadCreators(s, 8)
        e  == 8 + 6 * Len(cs)          \* position of "]"
    IN [key |-> JsonUnescape(s[3]), type |-> JsonUnescape(s[5]),
        creators |-> cs,
        data |-> [title |-> JsonUnescape(s[e + 4])]]

\* ------------------------------------------------------- cache file (sqlite)
NoRow == <<>>

NoFile == [exists |-> FALSE, tables |-> FALSE, dbinfo |-> {},
           data |-> [k \in Keys |-> NoRow]]

\* cache.py:25-38  what executescript(SCHEMA) leaves in the file
SCHEMA ==
    [exists |-> TRUE, tables |-> TRUE,
     dbinfo |-> {[id |-> SCHEMA_ID, version |-> SCHEMA_VERSION,
                  last_updated |-> SCHEMA_UPDATED]},
     data |-> [k \in Keys |-> NoRow]]

\* a conn that runs the schema script on every open
ConnAlwaysInit(f) == SCHEMA

\* cache.py:91-115  Cache.conn when _conn is None: connect, and create the
\* schema when SELECT * FROM dbinfo raises OperationalError (no such table)
conn(f) == IF f.tables THEN f ELSE SCHEMA

\* the file a Cache in state obj works on
Opened(obj, f) == IF obj = "open" THEN f ELSE conn(f)

\* cache.py:108,110  which of the two debug lines Cache.conn writes
ConnLog(obj, f) ==
    IF obj = "open" THEN ""
    ELSE IF f.tables THEN "Opened cache" ELSE "Initialising cache"

\* cache.py:150-152  UPDATE data SET value=? WHERE key=?
StmtUpdate(f, k, s) ==
    IF f.data[k] # NoRow
    THEN [file |-> [f EXCEPT !.data[k] = s], rowcount |-> 1]
    ELSE [file |-> f, rowcount |-> 0]

\* cache.py:160-162  INSERT INTO data (key, value) VALUES (?, ?)
StmtInsert(f, k, s) ==
    IF f.data[k] = NoRow
    THEN [file |-> [f EXCEPT !.data[k] = s], rowcount |-> 1, error |-> FALSE]
    ELSE [file |-> f, rowcount |-> 0, error |-> TRUE]    \* IntegrityError

\* a DELETE that lost its WHERE clause
StmtDeleteAll(f, k) ==
    IF f.data[k] # NoRow
    THEN [file |-> [f EXCEPT !.data = [x \in Keys |-> NoRow]], rowcount |-> 1]
    ELSE [file |-> f, rowcount |-> 0]

\* cache.py:180-182  DELETE FROM data WHERE key=?
StmtDelete(f, k) ==
    IF f.data[k] # NoRow
    THEN [file |-> [f EXCEPT !.data[k] = NoRow], rowcount |-> 1]
    ELSE [file |-> f, rowcount |-> 0]

\* an UPDATE dbinfo whose WHERE clause matches no row
SetUpdatedNoRow(f, t) ==
    [f EXCEPT !.dbinfo = {IF r.id = 0 THEN [r EXCEPT !.last_updated = t]
                          ELSE r : r \in f.dbinfo}]

\* cache.py:229-240  UPDATE dbinfo SET last_updated = ? WHERE id = 1
SetUpdated(f, t) ==
    [f EXCEPT !.dbinfo = {IF r.id = 1 THEN [r EXCEPT !.last_updated = t]
                          ELSE r : r \in f.dbinfo}]

\* cache.py:220-227  SELECT last_updated FROM dbinfo WHERE id = 1
updated(f) == (CHOOSE r \in f.dbinfo : r.id = 1).last_updated

\* cache.py:190-198
keys(f) == {k \in Keys : f.data[k] # NoRow}

\* cache.py:210-218  the (key, value) pairs, as a mapping
items(f) == [k \in keys(f) |-> loads(f.data[k])]

\* cache.py:200-208
values(f) == LET it == items(f) IN
    [v \in {it[k] : k \in DOMAIN it} |->
        Cardinality({k \in DOMAIN it : it[k] = v})]

\* cache.py:117-136
get(f, k, d) == IF f.data[k] = NoRow THEN d ELSE loads(f.data[k])

\* cache.py:138-169  Cache.set run to completion without error
CacheSet(f, k, v, t) ==
    LET s == dumps(v)
        u == StmtUpdate(f, k, s)
        i == StmtInsert(f, k, s)
    IN IF u.rowcount > 0 THEN SetUpdated(u.file, t)
       ELSE IF i.rowcount > 0 THEN SetUpdated(i.file, t) ELSE i.file

\* ------------------------------------------------------------ shared pieces
NoCall == [op |-> "none", key |-> "", value |-> Default, text |-> <<>>,
           same |-> FALSE]

\* what a call reports: ok is the bool set/delete return (is_fresh: update),
\* path the branch that wrote ("updated" / "inserted" / "deleted")
NoRet == [op |-> "none", key |-> "", raised |-> FALSE, ok |-> FALSE,
          path |-> "", same |-> FALSE, value |-> Default, keys |-> {},
          items |-> <<>>, vals |-> EmptyBag, t |-> 0, spot |-> "None",
          log |-> "", zotero_mod |-> 0, clone_mod |-> 0, cache_mod |-> 0,
          score |-> 0, text |-> "", seq |-> <<>>]

\* a Zotero database: per item key, no row in `items` ("none"), one of two
\* well-formed items ("A", "B"), or an item whose itemTypeID has no row in
\* itemTypes ("badtype")
Kinds == {"none", "A", "B", "badtype"}

Db(k1, k2) == [k \in Keys |-> IF k = "K1" THEN k1 ELSE k2]

\* the revisions Zotero's database goes through: one item; that item edited
\* and a second one added; the second one given an unknown type; the first
\* one deleted and the second one repaired
DbRevs == <<Db("A", "none"), Db("B", "A"), Db("A", "badtype"),
            Db("none", "A")>>

Dbs == {DbRevs[i] : i \in 1..Len(DbRevs)}

Rev(db) == CHOOSE i \in 1..Len(DbRevs) : DbRevs[i] = db

NoDb == [k \in Keys |-> "nofile"]

\* a full-text index file: the fts3 table `zotquery` and its rows
NoIndex == [exists |-> FALSE, table |-> FALSE, rows |-> EmptyBag]

\* the processes that resync at the same time
Procs == {"p1", "p2"}

\* a process about to call update_clone: no Cache handle (handle, and where
\* the file its connection has open now is: under the cache's name, under
\* the backup's name, or under no name, its content then kept in own)
NoProc ==
    [pc |-> "start", handle |-> "None", where |-> "none", own |-> NoFile,
     populate |-> FALSE, copied |-> NoDb, items |-> <<>>, todo |-> {},
     key |-> "", fin |-> 0, error |-> ""]

backendVars == <<src, srcMod, clone, cloneMod, backupFile, ftsFile,
                 foldedFile, resync, procs>>

\* the clock; nothing else changes
Tick ==
    /\ now + TickSecs <= MaxTime
    /\ now' = now + TickSecs
    /\ UNCHANGED <<src, srcMod, clone, cloneMod, cacheFile, backupFile,
                   ftsFile, foldedFile, cacheObj, pending, pc, call, ret,
                   absMap, resync, procs>>

\* ===================================================== SpecCache: one Cache
\* cache.py:138-152  set(): json.dumps, self.conn, UPDATE inside the first
\* `with transaction`; rowcount 0 leaves the block, which commits nothing
SetBegin(k, v, fail) ==
    LET s  == dumps(v)
        f0 == Opened(cacheObj, cacheFile)
        u  == StmtUpdate(f0, k, s)
        c  == [op |-> "set", key |-> k, value |-> v, text |-> s,
               same |-> (f0.data[k] = s)]
    IN /\ pc = "idle"
       /\ cacheObj' = "open"
       /\ cacheFile' = f0
       /\ IF fail
          THEN /\ pc' = "idle" /\ pending' = NoFile /\ call' = NoCall
               /\ ret' = [NoRet EXCEPT !.op = "set", !.key = k,
                                       !.raised = TRUE]
          ELSE /\ call' = c
               /\ ret' = NoRet
               /\ IF u.rowcount > 0
                  THEN pc' = "set_updated_in_txn" /\ pending' = u.file
                  ELSE pc' = "set_insert" /\ pending' = NoFile
       /\ UNCHANGED <<now, absMap>>
       /\ UNCHANGED backendVars

\* cache.py:154-157  _set_updated() called inside the open transaction: its
\* own `with conn` commits the data UPDATE and the dbinfo UPDATE together,
\* or rolls both back when the statement raises
SetUpdatedInTxn(fail) ==
    /\ pc = "set_updated_in_txn"
    /\ pc' = "idle"
    /\ pending' = NoFile
    /\ call' = NoCall
    /\ IF fail
       THEN /\ ret' = [NoRet EXCEPT !.op = "set", !.key = call.key,
                                    !.raised = TRUE]
            /\ UNCHANGED <<cacheFile, absMap>>
       ELSE /\ cacheFile' = SetUpdated(pending, now)
            /\ absMap' = [absMap EXCEPT ![call.key] = call.value]
            /\ ret' = [NoRet EXCEPT !.op = "set", !.key = call.key,
                                    !.ok = TRUE, !.path = "updated",
                                    !.same = call.same]
    /\ UNCHANGED <<now, cacheObj>>
    /\ UNCHANGED backendVars

\* cache.py:159-162  the second `with transaction`: INSERT, committed when
\* the block is left
SetInsert(fail) ==
    LET i == StmtInsert(cacheFile, call.key, call.text) IN
    /\ pc = "set_insert"
    /\ pending' = NoFile
    /\ IF fail \/ i.error
       THEN /\ pc' = "idle" /\ call' = NoCall
            /\ ret' = [NoRet EXCEPT !.op = "set", !.key = call.key,
                                    !.raised = TRUE]
            /\ UNCHANGED <<cacheFile, absMap>>
       ELSE /\ cacheFile' = i.file
            /\ absMap' = [absMap EXCEPT ![call.key] = call.value]
            /\ IF i.rowcount > 0
               THEN pc' = "set_updated" /\ call' = call /\ ret' = NoRet
               ELSE /\ pc' = "idle" /\ call' = NoCall
                    /\ ret' = [NoRet EXCEPT !.op = "set", !.key = call.key]
    /\ UNCHANGED <<now, cacheObj>>
    /\ UNCHANGED backendVars

\* cache.py:164-167 and 183-186  _set_updated() after the data statement
\* has been committed, in a transaction of its own
SetUpdatedAfter(fail) ==
    LET op == IF pc = "set_updated" THEN "set" ELSE "delete" IN
    /\ pc \in {"set_updated", "delete_updated"}
    /\ pc' = "idle"
    /\ pending' = NoFile
    /\ call' = NoCall
    /\ IF fail
       THEN /\ ret' = [NoRet EXCEPT !.op = op, !.key = call.key,
                                    !.raised = TRUE]
            /\ UNCHANGED cacheFile
       ELSE /\ cacheFile' = SetUpdated(cacheFile, now)
            /\ ret' = [NoRet EXCEPT !.op = op, !.key = call.key,
                          !.ok = TRUE,
                          !.path = IF op = "set" THEN "inserted"
                                   ELSE "deleted"]
    /\ UNCHANGED <<now, cacheObj, absMap>>
    /\ UNCHANGED backendVars

\* cache.py:171-188  delete(): DELETE in its own transaction
DeleteBegin(k, fail) ==
    LET f0 == Opened(cacheObj, cacheFile)
        d  == StmtDelete(f0, k)
    IN /\ pc = "idle"
       /\ cacheObj' = "open"
       /\ pending' = NoFile
       /\ IF fail
          THEN /\ pc' = "idle" /\ call' = NoCall /\ cacheFile' = f0
               /\ ret' = [NoRet EXCEPT !.op = "delete", !.key = k,
                                       !.raised = TRUE]
               /\ UNCHANGED absMap
          ELSE IF d.rowcount > 0
               THEN /\ cacheFile' = d.file
                    /\ absMap' = [absMap EXCEPT ![k] = Unbound]
                    /\ pc' = "delete_updated"
                    /\ call' = [NoCall EXCEPT !.op = "delete", !.key = k]
                    /\ ret' = NoRet
               ELSE /\ cacheFile' = f0
                    /\ pc' = "idle" /\ call' = NoCall
                    /\ ret' = [NoRet EXCEPT !.op = "delete", !.key = k]
                    /\ UNCHANGED absMap
       /\ UNCHANGED now
       /\ UNCHANGED backendVars

\* the read-only calls: each goes through self.conn and runs one SELECT
ReadFrame(f0, r) ==
    /\ pc = "idle"
    /\ cacheObj' = "open"
    /\ cacheFile' = f0
    /\ ret' = [r EXCEPT !.log = ConnLog(cacheObj, cacheFile)]
    /\ UNCHANGED <<now, pending, pc, call, absMap>>
    /\ UNCHANGED backendVars

\* cache.py:117-136
Get(k) ==
    LET f0 == Opened(cacheObj, cacheFile) IN
    ReadFrame(f0, [NoRet EXCEPT !.op = "get", !.key = k,
                                !.value = get(f0, k, Default)])

\* cache.py:190-198
KeysCall ==
    LET f0 == Opened(cacheObj, cacheFile) IN
    ReadFrame(f0, [NoRet EXCEPT !.op = "keys", !.keys = keys(f0)])

\* cache.py:200-208
ValuesCall ==
    LET f0 == Opened(cacheObj, cacheFile) IN
    ReadFrame(f0, [NoRet EXCEPT !.op = "values", !.vals = values(f0)])

\* cache.py:210-218
ItemsCall ==
    LET f0 == Opened(cacheObj, cacheFile) IN
    ReadFrame(f0, [NoRet EXCEPT !.op = "items", !.items = items(f0)])

\* cache.py:220-227
UpdatedCall ==
    LET f0 == Opened(cacheObj, cacheFile) IN
    ReadFrame(f0, [NoRet EXCEPT !.op = "updated", !.t = updated(f0)])

\* cache.py:82-89  the file is closed and a new Cache(filepath) is made
Reopen ==
    /\ pc = "idle"
    /\ cacheObj = "open"
    /\ cacheObj' = "new"
    /\ ret' = NoRet
    /\ UNCHANGED <<now, cacheFile, pending, pc, call, absMap>>
    /\ UNCHANGED backendVars

\* an empty data directory next to Zotero's database, nothing called yet
InitFiles ==
    /\ now = 1
    /\ src = DbRevs[1] /\ srcMod = 1
    /\ clone = NoDb /\ cloneMod = 0
    /\ cacheFile = NoFile /\ backupFile = NoFile
    /\ ftsFile = NoIndex /\ foldedFile = NoIndex /\ resync = "none"
    /\ pending = NoFile /\ pc = "idle" /\ ret = NoRet
    /\ absMap = [k \in Keys |-> Unbound]
    /\ procs = [p \in Procs |-> NoProc]

InitCommon == InitFiles /\ call = NoCall

InitCache == InitCommon /\ cacheObj = "new"

NextCache ==
    \/ Tick
    \/ \E k \in Keys, v \in Values, fail \in BOOLEAN : SetBegin(k, v, fail)
    \/ \E fail \in BOOLEAN : SetUpdatedInTxn(fail)
    \/ \E fail \in BOOLEAN : SetInsert(fail)
    \/ \E fail \in BOOLEAN : SetUpdatedAfter(fail)
    \/ \E k \in Keys, fail \in BOOLEAN : DeleteBegin(k, fail)
    \/ \E k \in Keys : Get(k)
    \/ KeysCall
    \/ ValuesCall
    \/ ItemsCall
    \/ UpdatedCall
    \/ Reopen

SpecCache == InitCache /\ [][NextCache]_vars

\* ================================================= claims on SpecCache
\* what a reader of the file sees, an unopened file being an empty cache
SeenUpdated(f) == updated(conn(f))

SeenData(f) == conn(f).data

BoundKeys == {k \in Keys : absMap[k] # Unbound}

\* a step in which set or delete returns normally after its last statement
MutationReturns ==
    /\ pc # "idle" /\ pc' = "idle"
    /\ ret'.op \in {"set", "delete"} /\ ~ret'.raised

\* a step that is a whole read-only call, or a delete that found no row
ReadReturns ==
    /\ pc = "idle" /\ pc' = "idle" /\ ret' # ret
    /\ ret'.op \in {"get", "keys", "values", "items", "updated", "delete"}
    /\ ~ret'.raised

\* C3: last_updated changes exactly at successful mutations: a set that
\* does not raise (also one that re-writes the same value) and a delete of a
\* present key set it to the current time; get, keys, values, items,
\* updated and a delete of an absent key leave it and the entries unchanged.
C3_UpdatedExactlyAtMutations ==
    [][ /\ MutationReturns => (ret'.ok /\ SeenUpdated(cacheFile') = now)
        /\ ReadReturns => /\ SeenUpdated(cacheFile') = SeenUpdated(cacheFile)
                          /\ SeenData(cacheFile') = SeenData(cacheFile)
                          /\ ~ret'.ok
        /\ SeenUpdated(cacheFile') # SeenUpdated(cacheFile)
              => (MutationReturns /\ ret'.ok)
      ]_vars

\* a second set of the value already stored has returned and has stamped
\* the cache with a later time than the schema's
C3_Witness ==
    /\ ret.op = "set" /\ ret.ok /\ ret.path = "updated" /\ ret.same
    /\ now > 1 /\ SeenUpdated(cacheFile) = now

\* C4: the cache is a map: the file binds exactly the keys of the map built
\* by the committed sets and deletes, to the values given; get, keys and
\* items answer from it; set returns true; delete returns true exactly when
\* the key was bound.
C4_CacheIsMap ==
    [][ /\ keys(conn(cacheFile')) = BoundKeys'
        /\ \A k \in Keys :
              get(conn(cacheFile'), k, Default) =
                  (IF absMap'[k] = Unbound THEN Default ELSE absMap'[k])
        /\ ret'.op = "get" =>
              ret'.value = (IF absMap'[ret'.key] = Unbound THEN Default
                            ELSE absMap'[ret'.key])
        /\ ret'.op = "keys" => ret'.keys = BoundKeys'
        /\ ret'.op = "items" =>
              /\ DOMAIN ret'.items = BoundKeys'
              /\ \A k \in BoundKeys' : ret'.items[k] = absMap'[k]
        /\ (MutationReturns /\ ret'.op = "set") => ret'.ok
        /\ (pc = "idle" /\ call'.op = "delete") => absMap[call'.key] # Unbound
        /\ (MutationReturns /\ ret'.op = "delete") => ret'.ok
        /\ (ReadReturns /\ ret'.op = "delete") => absMap[ret'.key] = Unbound
      ]_vars

\* get has returned the record with a non-ASCII title and two creators that
\* a set bound to K1, after a delete has unbound K2 at a later time
C4_Witness ==
    /\ ret.op = "get" /\ ret.key = "K1" /\ ret.value = ItemA("K1")
    /\ absMap["K2"] = Unbound /\ SeenUpdated(cacheFile) > 1
    /\ cacheFile.data["K1"] = dumps(ItemA("K1"))

\* C5: dbinfo holds exactly one row, id 1; last_updated is 0.0 when the
\* schema is created, never decreases, and version never decreases; opening
\* an initialised file creates no schema and resets no entry.
C5_OneInfoRow ==
    [][ /\ cacheFile'.tables =>
              /\ Cardinality(cacheFile'.dbinfo) = 1
              /\ \A r \in cacheFile'.dbinfo : r.id = 1
        /\ (~cacheFile.tables /\ cacheFile'.tables) =>
              (SeenUpdated(cacheFile') = 0 /\ keys(cacheFile') = {})
        /\ cacheFile.tables =>
              /\ cacheFile'.tables
              /\ SeenUpdated(cacheFile') >= SeenUpdated(cacheFile)
              /\ \A r \in cacheFile.dbinfo : \A q \in cacheFile'.dbinfo :
                     q.version >= r.version
        /\ (cacheObj = "new" /\ cacheObj' = "open" /\ cacheFile.tables) =>
              /\ cacheFile'.dbinfo = cacheFile.dbinfo
              /\ \A k \in Keys :
                    \/ cacheFile'.data[k] = cacheFile.data[k]
                    \/ call'.op = "delete" /\ call'.key = k
      ]_vars

\* a re-opened cache reports the time of a mutation made before it was closed
C5_Witness ==
    /\ ret.op = "updated" /\ ret.log = "Opened cache" /\ ret.t > 0
    /\ keys(cacheFile) # {}

\* C10: a commit that changes a data row also carries last_updated: after
\* every step in which the committed entries change, the committed
\* last_updated is the current time.
C10_AtomicWrite ==
    [][ cacheFile'.data # cacheFile.data => SeenUpdated(cacheFile') = now
      ]_vars

\* ======================================================= Spec: the backend
\* The files and the cache handle as one record, so that the properties of
\* ZotqueryBackend, which call each other, compose.
World ==
    [clone |-> clone, cloneMod |-> cloneMod, cacheFile |-> cacheFile,
     backupFile |-> backupFile, cacheObj |-> cacheObj, fts |-> ftsFile,
     folded |-> foldedFile, raised |-> FALSE, created |-> FALSE]

\* a cloned_sqlite that also re-copies a clone that differs from the source
ClonedSqliteRefreshing(w) ==
    IF w.clone # src
    THEN [w EXCEPT !.clone = src, !.cloneMod = now] ELSE w

\* backend.py:107-119
cloned_sqlite(w) ==
    IF w.clone = NoDb THEN [w EXCEPT !.clone = src, !.cloneMod = now] ELSE w

\* backend.py:543-556  r[0] raises when the type has no row
item_type_name(kind) ==
    [raised |-> kind = "badtype",
     name |-> IF kind = "A" THEN "book" ELSE "article"]

\* backend.py:465-473  the rows of `items`, ORDER BY dateAdded DESC
ItemRows(db) == SelectSeq(<<"K1", "K2">>, LAMBDA k : db[k] # "none")

\* backend.py:473-500  the loop over the rows: an item is added to `items`
\* once all of its fields are built; an error leaves the loop and the
\* function, and `items` with them
RECURSIVE ItemsLoop(_, _, _)
ItemsLoop(db, rows, its) ==
    IF rows = <<>> THEN [raised |-> FALSE, items |-> its]
    ELSE LET k == Head(rows)
             t == item_type_name(db[k])
             item == IF db[k] = "A" THEN ItemA(k) ELSE ItemB(k)
         IN IF t.raised THEN [raised |-> TRUE, items |-> <<>>]
            ELSE ItemsLoop(db, Tail(rows),
                           [x \in DOMAIN its \cup {k} |->
                               IF x = k THEN [item EXCEPT !.type = t.name]
                               ELSE its[x]])

\* a loop that gives an item without type name the type "None"
RECURSIVE NullTypeLoop(_, _, _)
NullTypeLoop(db, rows, its) ==
    IF rows = <<>> THEN [raised |-> FALSE, items |-> its]
    ELSE LET k == Head(rows)
             t == item_type_name(db[k])
             item == IF db[k] = "A" THEN ItemA(k) ELSE ItemB(k)
         IN NullTypeLoop(db, Tail(rows),
                         [x \in DOMAIN its \cup {k} |->
                             IF x = k
                             THEN [item EXCEPT
                                     !.type = IF t.raised THEN "None"
                                              ELSE t.name]
                             ELSE its[x]])

\* a get_all_items that emits an item whose type has no name
GetAllItemsNullType(db) == NullTypeLoop(db, ItemRows(db), <<>>)

\* backend.py:406-502  the mapping key -> item, or an error
get_all_items(db) == ItemsLoop(db, ItemRows(db), <<>>)

\* backend.py:101-102  for k, v in ...items(): self._cache.set(k, v)
RECURSIVE SetAll(_, _, _, _)
SetAll(f, its, ks, t) ==
    IF ks = {} THEN f
    ELSE LET k == CHOOSE x \in ks : TRUE
         IN SetAll(CacheSet(f, k, its[k], t), its, ks \ {k}, t)

\* a `cache` property that takes a handle without entries for no handle
CacheRetries(w) ==
    IF w.cacheObj # "None" /\ keys(conn(w.cacheFile)) # {} THEN w
    ELSE LET populate == ~w.cacheFile.exists
             w1 == [w EXCEPT !.cacheObj = "new"]
             w2 == cloned_sqlite(w1)
             g  == get_all_items(w2.clone)
         IN IF ~populate THEN w1
            ELSE IF g.raised THEN [w2 EXCEPT !.raised = TRUE]
            ELSE IF DOMAIN g.items = {} THEN w2
            ELSE [w2 EXCEPT !.cacheObj = "open",
                            !.cacheFile = SetAll(conn(w2.cacheFile), g.items,
                                                 DOMAIN g.items, now)]

\* a `cache` property that extracts in every new process, cache file or not
CacheAlwaysPopulates(w) ==
    IF w.cacheObj # "None" THEN w
    ELSE LET w1 == [w EXCEPT !.cacheObj = "new"]
             w2 == cloned_sqlite(w1)
             g  == get_all_items(w2.clone)
         IN IF g.raised THEN [w2 EXCEPT !.raised = TRUE]
            ELSE IF DOMAIN g.items = {} THEN w2
            ELSE [w2 EXCEPT !.cacheObj = "open",
                            !.cacheFile = SetAll(conn(w2.cacheFile), g.items,
                                                 DOMAIN g.items, now)]

\* backend.py:93-104  the `cache` property
cache(w) ==
    IF w.cacheObj # "None" THEN w
    ELSE LET populate == ~w.cacheFile.exists
             w1 == [w EXCEPT !.cacheObj = "new"]
             w2 == cloned_sqlite(w1)
             g  == get_all_items(w2.clone)
         IN IF ~populate THEN w1
            ELSE IF g.raised THEN [w2 EXCEPT !.raised = TRUE]
            ELSE IF DOMAIN g.items = {} THEN w2
            ELSE [w2 EXCEPT !.cacheObj = "open",
                            !.cacheFile = SetAll(conn(w2.cacheFile), g.items,
                                                 DOMAIN g.items, now)]

\* a use of the Cache behind the handle: Cache.conn connects
UseCache(w) ==
    [w EXCEPT !.cacheFile = Opened(w.cacheObj, w.cacheFile),
              !.cacheObj = "open"]

\* the comparisons with the cache test first
FreshnessCacheFirst(zotero_mod, clone_mod, cache_mod) ==
    IF (cache_mod - clone_mod) > SLACK
    THEN [update |-> TRUE, spot |-> "Cache"]
    ELSE IF zotero_mod > clone_mod
    THEN [update |-> TRUE, spot |-> "Clone"]
    ELSE [update |-> FALSE, spot |-> "None"]

\* the slack compared with >= instead of >
FreshnessInclusive(zotero_mod, clone_mod, cache_mod) ==
    IF zotero_mod > clone_mod
    THEN [update |-> TRUE, spot |-> "Clone"]
    ELSE IF (cache_mod - clone_mod) >= SLACK
    THEN [update |-> TRUE, spot |-> "Cache"]
    ELSE [update |-> FALSE, spot |-> "None"]

\* backend.py:219,224-235  the decision of is_fresh
Freshness(zotero_mod, clone_mod, cache_mod) ==
    IF zotero_mod > clone_mod
    THEN [update |-> TRUE, spot |-> "Clone"]
    ELSE IF (cache_mod - clone_mod) > SLACK
    THEN [update |-> TRUE, spot |-> "Cache"]
    ELSE [update |-> FALSE, spot |-> "None"]

\* backend.py:237-242
update_clone(w) == [w EXCEPT !.clone = src, !.cloneMod = now]

\* an update_cache that leaves the old cache file in place
UpdateCacheNoRename(w) == cache([w EXCEPT !.cacheObj = "None"])

\* backend.py:244-252
update_cache(w) ==
    LET w1 == IF w.cacheFile.exists
              THEN [w EXCEPT !.backupFile = w.cacheFile, !.cacheFile = NoFile]
              ELSE w
    IN cache([w1 EXCEPT !.cacheObj = "None"])

\* ------------------------------------------------------- full-text index
\* config.FILTERS['general'] and config.FILTERS_MAP: the indexed columns
\* and where each is found in an item
Columns == {"key", "title", "creators"}

FILTERS_MAP ==
    [key |-> [kind |-> "direct", key |-> "key", val |-> ""],
     title |-> [kind |-> "pair", key |-> "data", val |-> "title"],
     creators |-> [kind |-> "pair", key |-> "creators", val |-> "family"]]

\* the fields of an item that hold a list
ListFields == {"creators"}

\* backend.py:372  ' '.join(result)
RECURSIVE Join(_)
Join(ss) ==
    IF ss = <<>> THEN ""
    ELSE IF Len(ss) = 1 THEN ss[1]
    ELSE ss[1] \o " " \o Join(Tail(ss))

\* backend.py:350-357  [key, val]: [item[key][val]]; on TypeError (item[key]
\* is a list) x[val] of each element, where a KeyError is no longer caught;
\* on KeyError nothing
LookupPair(item, key, val) ==
    IF key \notin DOMAIN item THEN [raised |-> FALSE, result |-> <<>>]
    ELSE IF key \in ListFields
    THEN IF \E i \in 1..Len(item[key]) : val \notin DOMAIN item[key][i]
         THEN [raised |-> TRUE, result |-> <<>>]
         ELSE [raised |-> FALSE,
               result |-> [i \in 1..Len(item[key]) |-> item[key][i][val]]]
    ELSE IF val \notin DOMAIN item[key] THEN [raised |-> FALSE, result |-> <<>>]
    ELSE [raised |-> FALSE, result |-> <<item[key][val]>>]

\* backend.py:358-366  the loop over a list of [key, val] pairs: every pair
\* is tried, check is rebound by each lookup that succeeds, KeyError is
\* passed over and the TypeError of a list is not caught; check starts as
\* None and `check if check else []` makes that the empty list
RECURSIVE Candidates(_, _, _, _)
Candidates(item, pairs, i, check) ==
    IF i > Len(pairs) THEN [raised |-> FALSE, result |-> check]
    ELSE LET key == pairs[i][1]
             val == pairs[i][2]
         IN IF key \notin DOMAIN item
            THEN Candidates(item, pairs, i + 1, check)
            ELSE IF key \in ListFields THEN [raised |-> TRUE, result |-> <<>>]
            ELSE IF val \notin DOMAIN item[key]
            THEN Candidates(item, pairs, i + 1, check)
            ELSE Candidates(item, pairs, i + 1, <<item[key][val]>>)

\* backend.py:346-370  the list `result`, or an error: val_map is the name
\* of a string field of the item, a [key, val] pair, or a list of pairs
Lookup(item, val_map) ==
    IF val_map.kind = "direct"
    THEN IF val_map.key \notin DOMAIN item
         THEN [raised |-> TRUE, result |-> <<>>]
         ELSE [raised |-> FALSE, result |-> <<item[val_map.key]>>]
    ELSE IF val_map.kind = "pair"
    THEN LookupPair(item, val_map.key, val_map.val)
    ELSE Candidates(item, val_map.pairs, 1, <<>>)

\* backend.py:337-372  ' '.join(result)
get_datum(item, val_map) == Join(Lookup(item, val_map).result)

\* backend.py:34  fold = WF.fold_to_ascii
fold(s) == IF s = "Café" THEN "Cafe" ELSE s

\* backend.py:322-335 and 295-299  the row of one item
Row(item, folded) ==
    [c \in Columns |->
        IF folded THEN fold(get_datum(item, FILTERS_MAP[c]))
        ELSE get_datum(item, FILTERS_MAP[c])]

\* backend.py:293-306  one row per value of the cache
RECURSIVE RowsOf(_, _, _)
RowsOf(f, ks, folded) ==
    IF ks = {} THEN EmptyBag
    ELSE LET k == CHOOSE x \in ks : TRUE
         IN SetToBag({Row(loads(f.data[k]), folded)})
            (+) RowsOf(f, ks \ {k}, folded)

\* backend.py:256-274
create_index_db(f) == [exists |-> TRUE, table |-> TRUE, rows |-> EmptyBag]

\* an update_index_db that replaces the rows of the table
UpdateIndexDbReplacing(w, which, folded) ==
    LET f1 == [w[which] EXCEPT !.exists = TRUE]
        w2 == cache([w EXCEPT ![which] = f1])
        w3 == UseCache(w2)
        new == RowsOf(w3.cacheFile, keys(w3.cacheFile), folded)
    IN IF w2.raised THEN w2
       ELSE IF new = EmptyBag THEN w3
       ELSE IF ~f1.table THEN [w3 EXCEPT !.raised = TRUE]
       ELSE [w3 EXCEPT ![which].rows = new]

\* backend.py:276-308  connect(fts_path), then INSERT OR IGNORE one row for
\* each item generate_data yields from self.cache.values(), in one
\* transaction; fts3 has no key, so nothing is ever ignored
update_index_db(w, which, folded) ==
    LET f1 == [w[which] EXCEPT !.exists = TRUE]
        w2 == cache([w EXCEPT ![which] = f1])
        w3 == UseCache(w2)
        new == RowsOf(w3.cacheFile, keys(w3.cacheFile), folded)
    IN IF w2.raised THEN w2
       ELSE IF new = EmptyBag THEN w3
       ELSE IF ~f1.table THEN [w3 EXCEPT !.raised = TRUE]
       ELSE [w3 EXCEPT ![which].rows = @ (+) new]

\* an fts_sqlite that creates the table and does not fill it
FtsSqliteCreateOnly(w) ==
    IF ~w.fts.exists
    THEN [w EXCEPT !.fts = create_index_db(w.fts), !.created = TRUE]
    ELSE w

\* backend.py:121-132
fts_sqlite(w) ==
    IF ~w.fts.exists
    THEN update_index_db([w EXCEPT !.fts = create_index_db(w.fts),
                                   !.created = TRUE], "fts", FALSE)
    ELSE w

\* backend.py:134-146
folded_sqlite(w) ==
    IF ~w.folded.exists
    THEN update_index_db([w EXCEPT !.folded = create_index_db(w.folded),
                                   !.created = TRUE], "folded", TRUE)
    ELSE w

\* ------------------------------------------------------------ the actions
\* the state after a call that took the files to w and reports r
Apply(w, r, rs) ==
    /\ clone' = w.clone /\ cloneMod' = w.cloneMod
    /\ cacheFile' = w.cacheFile /\ backupFile' = w.backupFile
    /\ cacheObj' = w.cacheObj
    /\ ftsFile' = w.fts /\ foldedFile' = w.folded
    /\ ret' = [r EXCEPT !.raised = w.raised,
                        !.path = IF w.created THEN "created" ELSE ""]
    /\ resync' = rs
    /\ UNCHANGED <<now, src, srcMod, pending, pc, call, absMap, procs>>

\* Zotero writes its database: a later revision
ModifySource(db) ==
    /\ Rev(db) > Rev(src)
    /\ src' = db
    /\ srcMod' = now
    /\ UNCHANGED <<now, clone, cloneMod, cacheFile, backupFile, ftsFile,
                   foldedFile, cacheObj, pending, pc, call, ret, absMap,
                   resync, procs>>

\* backend.py:58-80  a new process makes a new ZotqueryBackend; _upgrade
\* finds its sentinel and removes nothing
Restart ==
    /\ cacheObj # "None"
    /\ cacheObj' = "None"
    /\ ret' = NoRet
    /\ UNCHANGED <<now, src, srcMod, clone, cloneMod, cacheFile, backupFile,
                   ftsFile, foldedFile, pending, pc, call, absMap, resync,
                   procs>>

\* backend.py:107-119  a caller reads backend.cloned_sqlite
ClonedSqlite ==
    /\ pc = "idle"
    /\ Apply(cloned_sqlite(World), [NoRet EXCEPT !.op = "cloned_sqlite"],
             resync)

\* backend.py:93-104  a caller reads backend.cache
CacheProperty ==
    /\ pc = "idle"
    /\ Apply(cache(World), [NoRet EXCEPT !.op = "cache"], resync)

\* backend.py:208-235
IsFresh ==
    LET zotero_mod == srcMod
        w1 == cloned_sqlite(World)
        clone_mod == w1.cloneMod
        w2 == cache(w1)
        w3 == UseCache(w2)
        cache_mod == updated(w3.cacheFile)
        r  == Freshness(zotero_mod, clone_mod, cache_mod)
    IN /\ pc = "idle"
       /\ IF w2.raised
          THEN Apply(w2, [NoRet EXCEPT !.op = "is_fresh"], resync)
          ELSE Apply(w3, [NoRet EXCEPT !.op = "is_fresh", !.ok = r.update,
                                 !.spot = r.spot, !.zotero_mod = zotero_mod,
                                 !.clone_mod = clone_mod,
                                 !.cache_mod = cache_mod], resync)

\* backend.py:237-242
UpdateClone ==
    /\ pc = "idle"
    /\ Apply(update_clone(World), [NoRet EXCEPT !.op = "update_clone"],
             "clone")

\* backend.py:244-252
UpdateCache ==
    LET w == update_cache(World) IN
    /\ pc = "idle"
    /\ Apply(w, [NoRet EXCEPT !.op = "update_cache"],
             IF w.raised THEN "none"
             ELSE IF resync = "none" THEN "none" ELSE "done")

\* backend.py:121-132  a caller reads backend.fts_sqlite
FtsSqlite ==
    /\ pc = "idle"
    /\ Apply(fts_sqlite(World), [NoRet EXCEPT !.op = "fts_sqlite"], resync)

\* backend.py:134-146  a caller reads backend.folded_sqlite
FoldedSqlite ==
    /\ pc = "idle"
    /\ Apply(folded_sqlite(World), [NoRet EXCEPT !.op = "folded_sqlite"],
             resync)

\* backend.py:276-308  a caller refreshes one of the two index files, with
\* the path that fts_sqlite / folded_sqlite gave it
UpdateIndexDb(which) ==
    /\ pc = "idle"
    /\ World[which].exists
    /\ BagCardinality(World[which].rows) < MaxRows
    /\ Apply(update_index_db(World, which, which = "folded"),
             [NoRet EXCEPT !.op = "update_index_db", !.key = which], resync)

Init == InitCommon /\ cacheObj = "None"

\* the clone, the cache and is_fresh under a running clock
Next ==
    \/ Tick
    \/ \E db \in Dbs : ModifySource(db)
    \/ Restart
    \/ ClonedSqlite
    \/ CacheProperty
    \/ IsFresh
    \/ UpdateClone
    \/ UpdateCache

Spec == Init /\ [][Next]_vars

\* every property and method of the backend, index files included, at one
\* reading of the clock
NextIndex ==
    \/ \E db \in Dbs : ModifySource(db)
    \/ Restart
    \/ ClonedSqlite
    \/ CacheProperty
    \/ IsFresh
    \/ UpdateClone
    \/ UpdateCache
    \/ FtsSqlite
    \/ FoldedSqlite
    \/ \E which \in {"fts", "folded"} : UpdateIndexDb(which)

SpecIndex == Init /\ [][NextIndex]_vars

\* ============================================ claims on Spec and SpecIndex
\* a step in which is_fresh returns
IsFreshReturns == ret'.op = "is_fresh" /\ ~ret'.raised /\ ret' # ret

\* C1: when the source's mtime is greater than the clone's, is_fresh
\* reports (True, "Clone"), whatever the cache's updated is.
C1_SourceNewerMeansClone ==
    [][ IsFreshReturns =>
          /\ ret'.zotero_mod = srcMod' /\ ret'.clone_mod = cloneMod'
          /\ ret'.cache_mod = SeenUpdated(cacheFile')
          /\ srcMod' > cloneMod' => (ret'.ok /\ ret'.spot = "Clone")
      ]_vars

\* is_fresh has answered "Clone" with a cache stamped more than the slack
\* after the clone
C1_Witness ==
    /\ ret.op = "is_fresh" /\ ret.ok /\ ret.spot = "Clone"
    /\ srcMod > cloneMod /\ ret.zotero_mod = srcMod
    /\ ret.cache_mod - ret.clone_mod > SLACK

\* C2: when the source's mtime is not greater than the clone's, is_fresh
\* reports (True, "Cache") exactly when updated - clone mtime > 10, and
\* (False, None) otherwise.
C2_CacheStaleBeyondSlack ==
    [][ (IsFreshReturns /\ srcMod' <= cloneMod') =>
          IF SeenUpdated(cacheFile') - cloneMod' > SLACK
          THEN ret'.ok /\ ret'.spot = "Cache"
          ELSE ~ret'.ok /\ ret'.spot = "None"
      ]_vars

\* is_fresh has answered fresh with the cache stamped exactly the slack
\* after the clone
C2_Witness ==
    /\ ret.op = "is_fresh" /\ ~ret.raised /\ ~ret.ok /\ ret.spot = "None"
    /\ ret.zotero_mod <= ret.clone_mod
    /\ ret.cache_mod - ret.clone_mod = SLACK

\* C6: when update_cache has completed, the cache holds, for exactly the
\* keys get_all_items yields on the clone, the records it yields.
C6_RebuildReplacesCache ==
    (ret.op = "update_cache" /\ ~ret.raised) =>
        LET g == get_all_items(clone) IN
        /\ keys(conn(cacheFile)) = DOMAIN g.items
        /\ \A k \in DOMAIN g.items :
              get(conn(cacheFile), k, Default) = g.items[k]

\* a rebuild has dropped the entry of a deleted item and added another
C6_Witness ==
    /\ ret.op = "update_cache" /\ ~ret.raised
    /\ backupFile.data["K1"] # NoRow
    /\ cacheFile.data["K1"] = NoRow /\ cacheFile.data["K2"] # NoRow

\* every item of the cache has a row in the index file f
AllIndexed(f, folded) ==
    \A k \in keys(conn(cacheFile)) :
        CopiesIn(Row(loads(cacheFile.data[k]), folded), f.rows) >= 1

\* C7 as stated: after a resync, when fts_sqlite / folded_sqlite has been
\* read, every item of the rebuilt cache has a row in that index.
C7_IndexRefreshedOnAccess ==
    /\ (resync = "done" /\ ret.op = "fts_sqlite" /\ ~ret.raised)
           => AllIndexed(ftsFile, FALSE)
    /\ (resync = "done" /\ ret.op = "folded_sqlite" /\ ~ret.raised)
           => AllIndexed(foldedFile, TRUE)

\* every item of the cache after the step has a row in the index file f
AllIndexedNext(f, folded) ==
    \A k \in keys(conn(cacheFile')) :
        CopiesIn(Row(loads(cacheFile'.data[k]), folded), f.rows) >= 1

\* C7 amended: a read of fts_sqlite / folded_sqlite that finds no index
\* file creates it with a row for every item of the cache; one that finds
\* the file leaves it as it is.
C7_IndexBuiltOnlyWhenMissing ==
    [][ /\ (ret'.op = "fts_sqlite" /\ ~ret'.raised /\ ret' # ret) =>
              IF ftsFile.exists THEN ftsFile' = ftsFile
              ELSE AllIndexedNext(ftsFile', FALSE)
        /\ (ret'.op = "folded_sqlite" /\ ~ret'.raised /\ ret' # ret) =>
              IF foldedFile.exists THEN foldedFile' = foldedFile
              ELSE AllIndexedNext(foldedFile', TRUE)
      ]_vars

\* after a resync the folded index has just been created with every item,
\* next to a plain index that existed before and lacks one
C7_Witness ==
    /\ resync = "done" /\ ret.op = "folded_sqlite" /\ ret.path = "created"
    /\ AllIndexed(foldedFile, TRUE)
    /\ ftsFile.table /\ ~AllIndexed(ftsFile, FALSE)

\* no row of f is missing from g
Grows(f, g) ==
    \A r \in BagToSet(f.rows) : CopiesIn(r, g.rows) >= CopiesIn(r, f.rows)

\* a step in which update_index_db returns
UpdateIndexReturns(which) ==
    /\ ret'.op = "update_index_db" /\ ret'.key = which /\ ~ret'.raised
    /\ (ret' # ret \/ ftsFile' # ftsFile \/ foldedFile' # foldedFile)

\* the rows update_index_db makes of the cache as it is after the step
NewRows(folded) == RowsOf(cacheFile', keys(cacheFile'), folded)

\* C8: no step removes or changes a row of an index; update_index_db adds
\* exactly one row per item of the cache to its table and leaves the other
\* table alone; a table created by fts_sqlite / folded_sqlite holds
\* exactly one row per item.
C8_IndexIsAdditive ==
    [][ /\ Grows(ftsFile, ftsFile') /\ Grows(foldedFile, foldedFile')
        /\ UpdateIndexReturns("fts") =>
              /\ ftsFile'.rows = ftsFile.rows (+) NewRows(FALSE)
              /\ BagCardinality(ftsFile'.rows) =
                    BagCardinality(ftsFile.rows) + Cardinality(keys(cacheFile'))
              /\ foldedFile' = foldedFile
        /\ UpdateIndexReturns("folded") =>
              /\ foldedFile'.rows = foldedFile.rows (+) NewRows(TRUE)
              /\ BagCardinality(foldedFile'.rows) =
                    BagCardinality(foldedFile.rows)
                        + Cardinality(keys(cacheFile'))
              /\ ftsFile' = ftsFile
        /\ (ret'.op = "fts_sqlite" /\ ~ret'.raised /\ ~ftsFile.exists) =>
              BagCardinality(ftsFile'.rows) = Cardinality(keys(cacheFile'))
        /\ (ret'.op = "folded_sqlite" /\ ~ret'.raised /\ ~foldedFile.exists)
              => BagCardinality(foldedFile'.rows) =
                    Cardinality(keys(cacheFile'))
      ]_vars

\* update_index_db has added to a table that keeps the row of an item no
\* longer in the cache
C8_Witness ==
    /\ ret.op = "update_index_db" /\ ret.key = "fts" /\ ~ret.raised
    /\ keys(cacheFile) # {}
    /\ \E r \in BagToSet(ftsFile.rows) : r.key \notin keys(cacheFile)
    /\ AllIndexed(ftsFile, FALSE)

\* the calls that read cloned_sqlite on their way
CloneReaders ==
    {"cloned_sqlite", "cache", "is_fresh", "update_cache", "fts_sqlite",
     "folded_sqlite", "update_index_db"}

\* C9: the clone changes only when a read of cloned_sqlite finds no file
\* (it becomes a copy of the source) and in update_clone (always a copy of
\* the source); a read that finds a clone leaves it, however stale.
C9_CloneChangesOnlyByCopy ==
    [][ /\ (<<clone', cloneMod'>> # <<clone, cloneMod>>) =>
              /\ clone' = src /\ cloneMod' = now
              /\ \/ clone = NoDb /\ ret'.op \in CloneReaders
                 \/ ret'.op = "update_clone"
        /\ (ret'.op = "cloned_sqlite" /\ ret' # ret) =>
              clone' = (IF clone = NoDb THEN src ELSE clone)
        /\ (ret'.op = "update_clone" /\ ret' # ret) =>
              (clone' = src /\ cloneMod' = now)
      ]_vars

\* cloned_sqlite has been read while the clone differs from the source
C9_Witness ==
    /\ ret.op = "cloned_sqlite" /\ clone # NoDb /\ clone # src

\* ================================== SpecResync: two processes resync at once
\* Each process runs update_clone and then update_cache; a step is one file
\* operation or one committed sqlite transaction.  sqlite's file lock makes
\* a transaction one step for the other writer.

\* the file the connection of process record r has open
FileAt(r) ==
    IF r.where = "cache" THEN cacheFile
    ELSE IF r.where = "backup" THEN backupFile
    ELSE r.own

\* process p leaves its connection's file as f and becomes r
WriteConn(p, r, f) ==
    /\ cacheFile' = IF r.where = "cache" THEN f ELSE cacheFile
    /\ backupFile' = IF r.where = "backup" THEN f ELSE backupFile
    /\ procs' = [procs EXCEPT
                   ![p] = IF r.where = "gone" THEN [r EXCEPT !.own = f] ELSE r]

\* backend.py:252  update_cache returns; fin is the order of returning
Finish(r) ==
    [r EXCEPT !.pc = "done",
              !.fin = 1 + Cardinality({q \in Procs : procs[q].pc = "done"})]

\* the next statement of the loop of backend.py:101-102
NextSet(r, todo) ==
    IF todo = {} THEN Finish([r EXCEPT !.todo = {}])
    ELSE [r EXCEPT !.todo = todo, !.pc = "set"]

resyncFrame == <<now, src, srcMod, ftsFile, foldedFile, cacheObj, pending,
                 pc, call, ret, absMap, resync>>

\* backend.py:237-242  update_clone: copyfile over the clone
PUpdateClone(p) ==
    /\ procs[p].pc = "start"
    /\ clone' = src /\ cloneMod' = now
    /\ procs' = [procs EXCEPT ![p].pc = "exists", ![p].copied = src]
    /\ UNCHANGED <<cacheFile, backupFile>>
    /\ UNCHANGED resyncFrame

\* backend.py:246  if os.path.exists(self._cache_path)
PExists(p) ==
    /\ procs[p].pc = "exists"
    /\ procs' = [procs EXCEPT
                   ![p].pc = IF cacheFile.exists THEN "rename" ELSE "reset"]
    /\ UNCHANGED <<clone, cloneMod, cacheFile, backupFile>>
    /\ UNCHANGED resyncFrame

\* backend.py:247  os.rename(cache, cache + '.backup'): OSError when the
\* file is no longer there; a connection another process has open follows
\* its file to the new name, and loses the name when its file is replaced
PRename(p) ==
    /\ procs[p].pc = "rename"
    /\ IF ~cacheFile.exists
       THEN /\ procs' = [procs EXCEPT ![p].pc = "raised",
                                      ![p].error = "OSError"]
            /\ UNCHANGED <<cacheFile, backupFile>>
       ELSE /\ backupFile' = cacheFile
            /\ cacheFile' = NoFile
            /\ procs' =
                 [q \in Procs |->
                    LET r == procs[q]
                        m == IF r.where = "cache"
                             THEN [r EXCEPT !.where = "backup"]
                             ELSE IF r.where = "backup"
                             THEN [r EXCEPT !.where = "gone",
                                            !.own = backupFile]
                             ELSE r
                    IN IF q = p THEN [m EXCEPT !.pc = "reset"] ELSE m]
    /\ UNCHANGED <<clone, cloneMod>>
    /\ UNCHANGED resyncFrame

\* backend.py:250-251 and 96-98  self._cache = None; the cache property:
\* populate = not os.path.exists(...); self._cache = Cache(...)
PReset(p) ==
    LET populate == ~cacheFile.exists
        r == [procs[p] EXCEPT !.populate = populate, !.handle = "new",
                              !.where = "none", !.own = NoFile]
    IN /\ procs[p].pc = "reset"
       /\ procs' = [procs EXCEPT
                      ![p] = IF populate THEN [r EXCEPT !.pc = "extract"]
                             ELSE Finish(r)]
       /\ UNCHANGED <<clone, cloneMod, cacheFile, backupFile>>
       /\ UNCHANGED resyncFrame

\* backend.py:99-101  get_all_items() on the clone as it is now
PExtract(p) ==
    LET g == get_all_items(clone) IN
    /\ procs[p].pc = "extract"
    /\ procs' = [procs EXCEPT
                   ![p] = IF g.raised
                          THEN [@ EXCEPT !.pc = "raised", !.error = "TypeError"]
                          ELSE NextSet([@ EXCEPT !.items = g.items],
                                       DOMAIN g.items)]
    /\ UNCHANGED <<clone, cloneMod, cacheFile, backupFile>>
    /\ UNCHANGED resyncFrame

\* cache.py:138-157  Cache.set(k, v): self.conn connects (and creates the
\* file and its schema when there is none), then UPDATE; when a row was
\* updated, _set_updated in the same transaction
PSet(p, k) ==
    LET r0 == procs[p]
        r  == IF r0.handle = "new"
              THEN [r0 EXCEPT !.handle = "open", !.where = "cache"] ELSE r0
        f0 == IF r0.handle = "new" THEN conn(cacheFile) ELSE FileAt(r0)
        u  == StmtUpdate(f0, k, dumps(r0.items[k]))
    IN /\ r0.pc = "set"
       /\ k \in r0.todo
       /\ IF u.rowcount > 0
          THEN WriteConn(p, NextSet(r, r0.todo \ {k}), SetUpdated(u.file, now))
          ELSE WriteConn(p, [r EXCEPT !.pc = "set_insert", !.key = k], f0)
       /\ UNCHANGED <<clone, cloneMod>>
       /\ UNCHANGED resyncFrame

\* cache.py:159-162  INSERT in a transaction of its own: IntegrityError
\* when the key has a row by now
PInsert(p) ==
    LET r == procs[p]
        i == StmtInsert(FileAt(r), r.key, dumps(r.items[r.key]))
    IN /\ r.pc = "set_insert"
       /\ IF i.error
          THEN /\ procs' = [procs EXCEPT ![p].pc = "raised",
                                         ![p].error = "IntegrityError"]
               /\ UNCHANGED <<cacheFile, backupFile>>
          ELSE WriteConn(p, [r EXCEPT !.pc = "set_updated"], i.file)
       /\ UNCHANGED <<clone, cloneMod>>
       /\ UNCHANGED resyncFrame

\* cache.py:164-167  _set_updated after the INSERT was committed
PSetUpdated(p) ==
    LET r == procs[p] IN
    /\ r.pc = "set_updated"
    /\ WriteConn(p, NextSet(r, r.todo \ {r.key}), SetUpdated(FileAt(r), now))
    /\ UNCHANGED <<clone, cloneMod>>
    /\ UNCHANGED resyncFrame

\* Zotero saves the edited library while the resyncs run
ZoteroSaves ==
    /\ \E p \in Procs : procs[p].pc # "start"
    /\ ModifySource(DbRevs[2])

\* what the cache property leaves in an empty directory: the cache of a
\* process that ran before
BuiltCache(db) ==
    LET g == get_all_items(db) IN SetAll(SCHEMA, g.items, DOMAIN g.items, 1)

\* a clone and a cache built from the source, or a clone alone
InitResync ==
    /\ now = 1
    /\ src = DbRevs[1] /\ srcMod = 1
    /\ clone = DbRevs[1] /\ cloneMod = 1
    /\ cacheFile \in {NoFile, BuiltCache(DbRevs[1])}
    /\ backupFile = NoFile
    /\ ftsFile = NoIndex /\ foldedFile = NoIndex /\ resync = "none"
    /\ cacheObj = "None"
    /\ pending = NoFile /\ pc = "idle" /\ call = NoCall /\ ret = NoRet
    /\ absMap = [k \in Keys |-> Unbound]
    /\ procs = [p \in Procs |-> NoProc]

NextResync ==
    \/ ZoteroSaves
    \/ \E p \in Procs : PUpdateClone(p)
    \/ \E p \in Procs : PExists(p)
    \/ \E p \in Procs : PRename(p)
    \/ \E p \in Procs : PReset(p)
    \/ \E p \in Procs : PExtract(p)
    \/ \E p \in Procs : \E k \in Keys : PSet(p, k)
    \/ \E p \in Procs : PInsert(p)
    \/ \E p \in Procs : PSetUpdated(p)

SpecResync == InitResync /\ [][NextResync]_vars

\* the entries a rebuild from the database db writes
Rebuilt(db) ==
    LET g == get_all_items(db) IN
    [k \in Keys |-> IF k \in DOMAIN g.items THEN dumps(g.items[k]) ELSE NoRow]

\* C11: under every interleaving of two concurrent resyncs no process
\* raises, and when both have returned the clone is the copy made by the
\* process that returned last and the cache holds the entries of a rebuild
\* from that copy.
C11_LastWriterWins ==
    /\ \A p \in Procs : procs[p].pc # "raised"
    /\ (\A p \in Procs : procs[p].pc = "done") =>
          \A p \in Procs : procs[p].fin = Cardinality(Procs) =>
              /\ clone = procs[p].copied
              /\ conn(cacheFile).data = Rebuilt(procs[p].copied)

\* ======================================== SpecRank: the ranking function
\* A score is kept exactly, as a number of Scale-ths.
RECURSIVE Fact(_)
Fact(n) == IF n <= 1 THEN 1 ELSE n * Fact(n - 1)

Scale == Fact(MaxCount)

\* struct.pack('I', i), little-endian
PackInt(i) ==
    <<i % 256, (i \div 256) % 256, (i \div 65536) % 256,
      (i \div 16777216) % 256>>

\* the buffer of a sequence of integers
Pack(ints) ==
    [i \in 1..(4 * Len(ints)) |-> PackInt(ints[((i - 1) \div 4) + 1])[((i - 1) % 4) + 1]]

\* backend.py:395-397  struct.unpack(b'I', matchinfo[i:i + 4])[0] for i in
\* range(0, bufsize, 4): struct.error on a last slice shorter than 4 bytes
Unpack(matchinfo) ==
    LET bufsize == Len(matchinfo) IN
    [raised |-> bufsize % 4 # 0,
     ints |-> [j \in 1..(bufsize \div 4) |->
                  matchinfo[4 * j - 3] + 256 * matchinfo[4 * j - 2]
                  + 65536 * matchinfo[4 * j - 1]
                  + 16777216 * matchinfo[4 * j]]]

\* matchinfo[2:]
Body(ints) == IF Len(ints) <= 2 THEN <<>> ELSE SubSeq(ints, 3, Len(ints))

\* zip(it, it, it): the whole triples of a sequence
Zip3(body) ==
    [j \in 1..(Len(body) \div 3) |->
        <<body[3 * j - 2], body[3 * j - 1], body[3 * j]>>]

\* x[0] * w / x[1] with a float weight w, for x[1] # 0
Term(x, w) == (x[1] * w * Scale) \div x[2]

RECURSIVE SumTerms(_, _, _)
SumTerms(xs, ws, n) ==
    IF n = 0 THEN 0
    ELSE SumTerms(xs, ws, n - 1)
         + (IF xs[n][2] # 0 THEN Term(xs[n], ws[n]) ELSE 0)

Min(a, b) == IF a < b THEN a ELSE b

\* backend.py:389-401  rank: zip(zip(it, it, it), weights) pairs the n-th
\* triple with the n-th weight and stops at the shorter of the two
rank(matchinfo, weights) ==
    LET u  == Unpack(matchinfo)
        xs == Zip3(Body(u.ints))
    IN [raised |-> u.raised,
        score |-> IF u.raised THEN 0
                  ELSE SumTerms(xs, weights, Min(Len(xs), Len(weights)))]

\* the statistics of one phrase in one column: hits in this row, hits in
\* all rows, rows with a hit
Triples == {<<0, 0, 0>>, <<1, MaxCount, 1>>, <<MaxCount, MaxCount, 1>>}

\* the floats of a weight vector
WeightVals == {0, 1, 2}

\* the weight vectors tried on an index of C columns: one weight per
\* column, or one too few
WeightVectors(C) ==
    [1..C -> WeightVals]
    \cup (IF C > 1 THEN [1..(C - 1) -> WeightVals] ELSE {})

\* what fts3 packs for P phrases and C columns, ts[p] being the statistics
\* of phrase p in each of the columns
MatchInts(P, C, ts) ==
    <<P, C>> \o [i \in 1..(3 * P * C) |->
                    ts[((i - 1) \div (3 * C)) + 1][((i - 1) % 3) + 1]]

\* the buffers made of the first n integers and e more bytes: whole, one
\* or three bytes too long, one integer or one triple short, and without
\* header
Cuts(L) ==
    {<<L, 0>>, <<L, 1>>, <<L, 3>>, <<L - 1, 0>>, <<L - 3, 0>>, <<1, 0>>,
     <<0, 0>>}

RankCall(ints, cut, ws) ==
    [op |-> "rank",
     matchinfo |-> Pack(SubSeq(ints, 1, cut[1])) \o [i \in 1..cut[2] |-> 1],
     weights |-> ws]

\* the calls with buffers for P phrases
RankCalls(P) ==
    UNION {
      {RankCall(MatchInts(P, C, ts), cut, ws) :
          ts \in [1..P -> Triples],
          cut \in Cuts(2 + 3 * P * C),
          ws \in WeightVectors(C)}
      : C \in 1..MaxCols}

\* sqlite calls the function that make_rank_func(weights) returned
Rank ==
    LET r == rank(call.matchinfo, call.weights) IN
    /\ call.op = "rank"
    /\ ret.op = "none"
    /\ ret' = [NoRet EXCEPT !.op = "rank", !.raised = r.raised,
                            !.score = r.score]
    /\ UNCHANGED <<now, cacheFile, cacheObj, pending, pc, call, absMap>>
    /\ UNCHANGED backendVars

InitRank ==
    /\ InitFiles
    /\ cacheObj = "None"
    /\ \E P \in 1..MaxPhrases : call \in RankCalls(P)

NextRank == Rank

SpecRank == InitRank /\ [][NextRank]_vars

\* ---------------------------------------------------- claims on SpecRank
\* the integers of the call's buffer, its header and its triples
CallInts == Unpack(call.matchinfo).ints

CallPhrases == CallInts[1]

CallCols == CallInts[2]

CallTriples == Zip3(Body(CallInts))

\* a buffer of whole integers: header, then phrases x columns triples, for
\* a weight vector of one weight per column
WellFormed ==
    /\ Len(call.matchinfo) % 4 = 0
    /\ Len(CallInts) >= 2
    /\ Len(CallInts) = 2 + 3 * CallPhrases * CallCols
    /\ Len(call.weights) = CallCols

\* the sum over the first n triples, the weights cycling per phrase
RECURSIVE CyclicSum(_, _, _)
CyclicSum(xs, ws, n) ==
    IF n = 0 THEN 0
    ELSE CyclicSum(xs, ws, n - 1)
         + (IF xs[n][2] # 0 /\ ws[((n - 1) % Len(ws)) + 1] # 0
            THEN (xs[n][1] * ws[((n - 1) % Len(ws)) + 1] * Scale) \div xs[n][2]
            ELSE 0)

\* C12: for a well-formed buffer of P phrases and C columns the score is
\* the sum over all P x C triples of matches_in_row * weight[column] /
\* matches_in_all_rows, the weights reused for every phrase; triples with
\* weight 0 or matches_in_all_rows 0 add nothing, and rank does not raise.
C12_ScoreSumsAllPhrases ==
    (ret.op = "rank" /\ WellFormed) =>
        /\ ~ret.raised
        /\ ret.score = CyclicSum(CallTriples, call.weights, Len(CallTriples))

\* C13: rank raises for every buffer of unexpected size: a byte length
\* that is no multiple of 4, fewer than two header integers, a body that
\* is not whole triples, a number of triples other than phrases x columns,
\* or a weight vector of another length than the columns.
C13_MalformedBufferRaises ==
    (ret.op = "rank" /\ ~WellFormed) => ret.raised

\* ============================================ SpecDatum: get_datum alone
\* the `data` mappings: any of two fields
DatumData ==
    {[f \in D |-> IF f = "title" THEN "Café" ELSE "Short"] :
        D \in SUBSET {"title", "shortTitle"}}

\* the elements of a `creators` list, one of them without a family name
DatumCreator == {[family |-> "Doe"], [family |-> "Roe"], [given |-> "Jane"]}

DatumCreators == UNION {[1..n -> DatumCreator] : n \in 0..MaxCreators}

\* items with and without `data` and `creators`
DatumItems ==
    {[key |-> "K1"]}
    \cup {[key |-> "K1", data |-> d] : d \in DatumData}
    \cup {[key |-> "K1", creators |-> c] : c \in DatumCreators}
    \cup {[key |-> "K1", data |-> d, creators |-> c] :
             d \in DatumData, c \in DatumCreators}

Pair(key, val) == [kind |-> "pair", key |-> key, val |-> val]

PairList(ps) == [kind |-> "pairs", key |-> "", val |-> "", pairs |-> ps]

\* the shapes a value of FILTERS_MAP takes
ValMaps ==
    {[kind |-> "direct", key |-> "key", val |-> ""],
     Pair("data", "title"), Pair("data", "shortTitle"),
     Pair("creators", "family"),
     PairList(<<<<"data", "title">>, <<"data", "shortTitle">>>>),
     PairList(<<<<"data", "shortTitle">>, <<"data", "title">>>>),
     PairList(<<<<"zot-tags", "name">>, <<"data", "title">>>>),
     PairList(<<<<"creators", "family">>, <<"data", "title">>>>)}

DatumCalls ==
    {[op |-> "get_datum", item |-> i, val_map |-> m] :
        i \in DatumItems, m \in ValMaps}

\* generate_data calls get_datum(item, json_map)
GetDatum ==
    LET r == Lookup(call.item, call.val_map) IN
    /\ call.op = "get_datum"
    /\ ret.op = "none"
    /\ ret' = [NoRet EXCEPT !.op = "get_datum", !.raised = r.raised,
                  !.text = IF r.raised THEN ""
                           ELSE get_datum(call.item, call.val_map)]
    /\ UNCHANGED <<now, cacheFile, cacheObj, pending, pc, call, absMap>>
    /\ UNCHANGED backendVars

InitDatum == InitFiles /\ cacheObj = "None" /\ call \in DatumCalls

NextDatum == GetDatum

SpecDatum == InitDatum /\ [][NextDatum]_vars

\* --------------------------------------------------- claims on SpecDatum
\* the candidate [key, val] is found in the item of the call
Succeeds(item, pair) ==
    /\ pair[1] \in DOMAIN item
    /\ pair[1] \notin ListFields
    /\ pair[2] \in DOMAIN item[pair[1]]

\* the candidates of the call that are found, in list order
Found ==
    SelectSeq(call.val_map.pairs, LAMBDA pr : Succeeds(call.item, pr))

\* C14: for a list of candidate pairs get_datum returns the value of the
\* first candidate that is found, also when a later one is found too, and
\* the empty string when none is.
C14_FirstCandidateWins ==
    (ret.op = "get_datum" /\ call.val_map.kind = "pairs" /\ ~ret.raised) =>
        ret.text = (IF Found = <<>> THEN ""
                    ELSE call.item[Found[1][1]][Found[1][2]])

\* the values of the call's [key, val] pair, when every lookup is possible
PairValues ==
    LET item == call.item
        key == call.val_map.key
        val == call.val_map.val
    IN IF key \notin DOMAIN item THEN <<>>
       ELSE IF key \in ListFields
       THEN IF \A i \in 1..Len(item[key]) : val \in DOMAIN item[key][i]
            THEN [i \in 1..Len(item[key]) |-> item[key][i][val]]
            ELSE <<>>
       ELSE IF val \in DOMAIN item[key] THEN <<item[key][val]>> ELSE <<>>

\* C15: for a [key, subkey] pair get_datum never raises; it returns the
\* empty string when key is missing, when subkey is missing from the
\* mapping, or when an element of the sequence lacks subkey, and the
\* space-joined values otherwise.
C15_PairNeverRaises ==
    (ret.op = "get_datum" /\ call.val_map.kind = "pair") =>
        /\ ~ret.raised
        /\ ret.text = Join(PairValues)

\* ------------------------------------------- claims on Spec: extraction
\* a step that is a call of op, not the clock's or Zotero's
CallReturns(op) ==
    ret'.op = op /\ now' = now /\ src' = src /\ srcMod' = srcMod

\* a step in which the cache is populated from get_all_items: update_cache,
\* or a first read of `cache` that finds no cache file
Populating ==
    \/ CallReturns("update_cache")
    \/ /\ CallReturns("cache") \/ CallReturns("is_fresh")
       /\ cacheObj = "None" /\ ~cacheFile.exists

\* the type of some item of db has no row in itemTypes
BadType(db) == \E k \in Keys : db[k] = "badtype"

\* C16: when the type-name lookup fails for an item of the clone,
\* get_all_items raises and returns no mapping, a rebuild driven by it
\* raises and writes no entry, and no cached record lacks a type name.
C16_BadTypeFailsWholePass ==
    [][ /\ (Populating /\ BadType(clone')) =>
              /\ get_all_items(clone').raised
              /\ DOMAIN get_all_items(clone').items = {}
              /\ ret'.raised
              /\ keys(conn(cacheFile')) = {}
        /\ \A k \in keys(conn(cacheFile')) :
              get(conn(cacheFile'), k, Default).type \in {"book", "article"}
      ]_vars

\* update_cache has raised on a clone whose first item is sound and whose
\* second has no type name: the old entries are in the backup, the cache
\* is empty
C16_Witness ==
    /\ ret.op = "update_cache" /\ ret.raised
    /\ clone["K1"] = "A" /\ clone["K2"] = "badtype"
    /\ keys(conn(backupFile)) # {} /\ keys(conn(cacheFile)) = {}

\* ================= SpecExtract: the per-item queries of get_all_items
\* backend.py:580-587  the dict made of one row of the creators query
CreatorOf(row) ==
    [family |-> row.lastName, given |-> row.firstName,
     type |-> row.creatorType, index |-> row.orderIndex]

\* backend.py:558-589  _item_creators: one dict per row, appended in the
\* order the cursor yields the rows
item_creators(rows) == [i \in 1..Len(rows) |-> CreatorOf(rows[i])]

\* backend.py:619-623  value_name[0:4] for the field named date
Stored(field_name, value_name) ==
    IF field_name = "date"
    THEN SubSeq(value_name, 1, Min(4, Len(value_name)))
    ELSE value_name

\* a loop in which a later row of a field replaces the earlier one
RECURSIVE MetaLoopLastWins(_, _)
MetaLoopLastWins(rows, item_meta) ==
    IF rows = <<>> THEN item_meta
    ELSE LET field_name == Head(rows)[1]
             value_name == Head(rows)[2]
         IN MetaLoopLastWins(Tail(rows),
                [f \in DOMAIN item_meta \cup {field_name} |->
                    IF f = field_name THEN Stored(field_name, value_name)
                    ELSE item_meta[f]])

\* backend.py:612-623  the loop over the rows of the metadata query: a
\* field is bound when its name is not in item_meta yet
RECURSIVE MetaLoop(_, _)
MetaLoop(rows, item_meta) ==
    IF rows = <<>> THEN item_meta
    ELSE LET field_name == Head(rows)[1]
             value_name == Head(rows)[2]
         IN IF field_name \in DOMAIN item_meta
            THEN MetaLoop(Tail(rows), item_meta)
            ELSE MetaLoop(Tail(rows),
                    [f \in DOMAIN item_meta \cup {field_name} |->
                        IF f = field_name THEN Stored(field_name, value_name)
                        ELSE item_meta[f]])

\* an _item_metadata in which the last row of a field wins
ItemMetadataLastWins(rows) == MetaLoopLastWins(rows, <<>>)

\* backend.py:591-625  _item_metadata
item_metadata(rows) == MetaLoop(rows, <<>>)

\* the rows of itemCreators of one item, the order indexes 0 .. n-1 given
\* to the creators in any order; the cursor yields them as stored, the
\* query having no ORDER BY
CreatorRowSeqs ==
    UNION {
      {[i \in 1..n |-> [firstName |-> "Jane", lastName |-> names[i],
                        creatorType |-> "author", orderIndex |-> order[i]]] :
          names \in [1..n -> {"Doe", "Roe"}],
          order \in {o \in [1..n -> 0..(n - 1)] :
                        \A i, j \in 1..n : o[i] = o[j] => i = j}}
      : n \in 0..MaxCreators}

\* field values, as sequences of characters
MetaRows ==
    {<<"title", <<"T", "e", "s", "t">>>>,
     <<"title", <<"F", "o", "o", "b", "a", "r">>>>,
     <<"date", <<"2", "0", "1", "3", "-", "0", "5", "-", "0", "1">>>>,
     <<"date", <<"1", "9", "9", "9", "-">>>>,
     <<"date", <<"2", "0", "1", "4">>>>,
     <<"date", <<"2", "0", "1">>>>}

MetaRowSeqs == UNION {[1..n -> MetaRows] : n \in 0..MaxFields}

ExtractCalls ==
    {[op |-> "item_creators", rows |-> rs] : rs \in CreatorRowSeqs}
    \cup {[op |-> "item_metadata", rows |-> rs] : rs \in MetaRowSeqs}

\* backend.py:493  item['creators'] = self._item_creators(id_)
ItemCreators ==
    /\ call.op = "item_creators"
    /\ ret.op = "none"
    /\ ret' = [NoRet EXCEPT !.op = "item_creators",
                            !.seq = item_creators(call.rows)]
    /\ UNCHANGED <<now, cacheFile, cacheObj, pending, pc, call, absMap>>
    /\ UNCHANGED backendVars

\* backend.py:495  item['data'] = self._item_metadata(id_)
ItemMetadata ==
    /\ call.op = "item_metadata"
    /\ ret.op = "none"
    /\ ret' = [NoRet EXCEPT !.op = "item_metadata",
                            !.value = item_metadata(call.rows)]
    /\ UNCHANGED <<now, cacheFile, cacheObj, pending, pc, call, absMap>>
    /\ UNCHANGED backendVars

InitExtract == InitFiles /\ cacheObj = "None" /\ call \in ExtractCalls

NextExtract ==
    \/ ItemCreators
    \/ ItemMetadata

SpecExtract == InitExtract /\ [][NextExtract]_vars

\* ------------------------------------------------- claims on SpecExtract
\* C17: the creators of an item's record are in ascending order of their
\* order index, in whatever order the rows came.
C17_CreatorsAscending ==
    ret.op = "item_creators" =>
        \A i, j \in 1..Len(ret.seq) :
            i < j => ret.seq[i].index < ret.seq[j].index

\* the value of the first row of the call with the field name f
FirstValue(f) ==
    LET i == CHOOSE x \in 1..Len(call.rows) :
                 /\ call.rows[x][1] = f
                 /\ \A y \in 1..(x - 1) : call.rows[y][1] # f
    IN call.rows[i][2]

\* C18: the metadata mapping binds each field name of the rows to the
\* value of the first row with that name; a date longer than 4 characters
\* is stored as its first 4 characters, a date of at most 4 characters and
\* every other field unchanged.
C18_FirstSeenAndYear ==
    ret.op = "item_metadata" =>
        /\ DOMAIN ret.value = {call.rows[i][1] : i \in 1..Len(call.rows)}
        /\ \A f \in DOMAIN ret.value :
              LET v == FirstValue(f) IN
              ret.value[f] = IF f = "date" /\ Len(v) > 4
                             THEN <<v[1], v[2], v[3], v[4]>>
                             ELSE v

\* a long date was cut to its year although a later, different date row
\* followed, next to a title of more than 4 characters kept whole
C18_Witness ==
    /\ ret.op = "item_metadata"
    /\ Len(call.rows) = 3
    /\ call.rows[1][1] = "date" /\ Len(call.rows[1][2]) = 10
    /\ call.rows[2][1] = "date" /\ Len(call.rows[2][2]) = 3
    /\ call.rows[3][1] = "title" /\ Len(call.rows[3][2]) = 6
    /\ ret.value["date"] = <<"2", "0", "1", "3">>
    /\ Len(ret.value["title"]) = 6

\* ------------------------------------------- claims on Spec: freshness
\* C19: when the source is not newer than the clone and the clone was
\* copied again after the cache was built, at a later time than the
\* cache's last update, is_fresh reports (True, "Cache").
C19_RecopiedCloneMeansCache ==
    [][ ( /\ CallReturns("is_fresh") /\ ~ret'.raised
          /\ resync = "clone" /\ cacheFile.exists
          /\ srcMod' <= cloneMod'
          /\ cloneMod' > SeenUpdated(cacheFile') )
        => (ret'.ok /\ ret'.spot = "Cache")
      ]_vars

\* update_clone and then update_cache have completed, the source is what
\* was copied, and the cache's last update is within the slack of the copy
Synced ==
    /\ resync = "done"
    /\ clone = src
    /\ SeenUpdated(cacheFile) - cloneMod <= SLACK

\* C20: a resync whose rebuild ends within the slack of the copy leaves
\* the backend synced; as long as the source is not modified and no
\* further update_clone or update_cache is called it stays synced, however
\* much time passes and whatever else is called, and every is_fresh
\* answers (False, None).
C20_FreshUntilSourceChanges ==
    [][ /\ ( /\ CallReturns("update_cache") /\ ~ret'.raised
             /\ resync = "clone" /\ clone' = src'
             /\ now - cloneMod' <= SLACK )
           => Synced'
        /\ ( /\ Synced /\ src' = src
             /\ ~CallReturns("update_clone") /\ ~CallReturns("update_cache") )
           => /\ Synced'
              /\ srcMod' <= cloneMod'
              /\ CallReturns("is_fresh") =>
                    (~ret'.raised /\ ~ret'.ok /\ ret'.spot = "None")
      ]_vars

\* is_fresh has answered fresh more than the slack after the copy of a
\* resync whose rebuild wrote entries
C20_Witness ==
    /\ Synced /\ ret.op = "is_fresh" /\ ~ret.raised /\ ~ret.ok
    /\ keys(conn(cacheFile)) # {}
    /\ SeenUpdated(cacheFile) >= cloneMod
    /\ now - cloneMod > SLACK

\* ------------------------------------- claims on Spec: a failed rebuild
\* the backend holds a Cache, and that cache has no entry
Unpopulated == cacheObj # "None" /\ keys(conn(cacheFile)) = {}

\* C21: when extraction raises while the cache is being built (a first
\* read of `cache`, or update_cache), the call raises, the previous cache
\* file is the backup and nothing is left under the cache's name, the new
\* cache has no entry and the backend keeps its handle; with that handle
\* a later read of `cache` extracts nothing and does not raise, and
\* is_fresh reads updated = 0.0 and does not report ("Cache").
C21_FailedBuildLeavesEmptyHandle ==
    [][ /\ (Populating /\ get_all_items(clone').raised) =>
              /\ ret'.raised
              /\ cacheObj' = "new"
              /\ ~cacheFile'.exists /\ keys(conn(cacheFile')) = {}
              /\ backupFile' = IF cacheFile.exists THEN cacheFile
                               ELSE backupFile
        /\ (Unpopulated /\ CallReturns("cache")) =>
              /\ ~ret'.raised
              /\ cacheObj' = cacheObj /\ cacheFile' = cacheFile
        /\ (Unpopulated /\ CallReturns("is_fresh")) =>
              /\ ~ret'.raised
              /\ ret'.cache_mod = 0
              /\ ret'.spot # "Cache"
              /\ Unpopulated'
      ]_vars

\* after an update_cache that raised on an item without type name, with
\* the old entries in the backup, is_fresh has read 0.0 from the empty
\* cache, later than the slack after the copy, and has answered fresh
C21_Witness ==
    /\ ret.op = "is_fresh" /\ ~ret.raised /\ ret.cache_mod = 0 /\ ~ret.ok
    /\ Unpopulated /\ cacheFile.exists
    /\ keys(conn(backupFile)) # {}
    /\ BadType(clone)
    /\ now - cloneMod > SLACK

\* ============ SpecPipeline: a read of fts_sqlite / folded_sqlite, step by
\* step: every file the read creates or writes is a step of its own
IndexFile(which) == IF which = "fts" THEN ftsFile ELSE foldedFile

\* the index file `which` becomes f, the other one stays
SetIndex(which, f) ==
    IF which = "fts" THEN ftsFile' = f /\ UNCHANGED foldedFile
    ELSE foldedFile' = f /\ UNCHANGED ftsFile

IndexOp(which) == IF which = "fts" THEN "fts_sqlite" ELSE "folded_sqlite"

\* the read in progress: its index, the mapping get_all_items returned and
\* the keys of it not yet set
PipeCall(which, its, todo) ==
    [op |-> IndexOp(which), which |-> which, items |-> its, todo |-> todo]

pipeFrame == <<now, src, srcMod, backupFile, pending, absMap, resync, procs>>

\* backend.py:129,143  if not os.path.exists(path); the path is returned
\* at once when the file is there
IxAccess(which) ==
    /\ pc = "idle"
    /\ IF IndexFile(which).exists
       THEN /\ ret' = [NoRet EXCEPT !.op = IndexOp(which)]
            /\ UNCHANGED <<pc, call>>
       ELSE /\ pc' = "create"
            /\ call' = PipeCall(which, <<>>, {})
            /\ ret' = NoRet
    /\ UNCHANGED <<clone, cloneMod, cacheFile, cacheObj, ftsFile, foldedFile>>
    /\ UNCHANGED pipeFrame

\* backend.py:130,144  self.create_index_db(path): the file and its table
IxCreateIndex ==
    /\ pc = "create"
    /\ SetIndex(call.which, create_index_db(IndexFile(call.which)))
    /\ pc' = "cache"
    /\ UNCHANGED <<clone, cloneMod, cacheFile, cacheObj, call, ret>>
    /\ UNCHANGED pipeFrame

\* backend.py:290,322 and 96-99  update_index_db connects to the index and
\* generate_data reads self.cache: a backend without handle tests for the
\* cache file and makes the Cache
IxCacheHandle ==
    /\ pc = "cache"
    /\ IF cacheObj # "None" THEN pc' = "insert" /\ UNCHANGED cacheObj
       ELSE /\ cacheObj' = "new"
            /\ pc' = IF cacheFile.exists THEN "insert" ELSE "mirror"
    /\ UNCHANGED <<clone, cloneMod, cacheFile, ftsFile, foldedFile, call, ret>>
    /\ UNCHANGED pipeFrame

\* backend.py:100 and 116-117  sqlite3.connect(self.cloned_sqlite): the
\* clone is copied when there is none
IxMirror ==
    LET w == cloned_sqlite(World) IN
    /\ pc = "mirror"
    /\ clone' = w.clone /\ cloneMod' = w.cloneMod
    /\ pc' = "extract"
    /\ UNCHANGED <<cacheFile, cacheObj, ftsFile, foldedFile, call, ret>>
    /\ UNCHANGED pipeFrame

\* backend.py:101  self.get_all_items(): the whole mapping, or an error
\* that ends the read
IxExtract ==
    LET g == get_all_items(clone) IN
    /\ pc = "extract"
    /\ IF g.raised
       THEN /\ pc' = "idle" /\ call' = NoCall
            /\ ret' = [NoRet EXCEPT !.op = call.op, !.raised = TRUE,
                                    !.path = "created"]
       ELSE /\ call' = PipeCall(call.which, g.items, DOMAIN g.items)
            /\ pc' = IF DOMAIN g.items = {} THEN "insert" ELSE "set"
            /\ UNCHANGED ret
    /\ UNCHANGED <<clone, cloneMod, cacheFile, cacheObj, ftsFile, foldedFile>>
    /\ UNCHANGED pipeFrame

\* backend.py:101-102  self._cache.set(k, v) for one item of the mapping
IxSetItem(k) ==
    /\ pc = "set"
    /\ k \in call.todo
    /\ cacheFile' = CacheSet(Opened(cacheObj, cacheFile), k, call.items[k],
                             now)
    /\ cacheObj' = "open"
    /\ call' = PipeCall(call.which, call.items, call.todo \ {k})
    /\ pc' = IF call.todo = {k} THEN "insert" ELSE "set"
    /\ UNCHANGED <<clone, cloneMod, ftsFile, foldedFile, ret>>
    /\ UNCHANGED pipeFrame

\* backend.py:292-306  one row for each value of the cache, committed
\* together when the `with con` block is left
IxInsertRows ==
    LET f0  == Opened(cacheObj, cacheFile)
        new == RowsOf(f0, keys(f0), call.which = "folded")
        idx == IndexFile(call.which)
    IN /\ pc = "insert"
       /\ cacheFile' = f0
       /\ cacheObj' = "open"
       /\ SetIndex(call.which, [idx EXCEPT !.rows = @ (+) new])
       /\ pc' = "idle" /\ call' = NoCall
       /\ ret' = [NoRet EXCEPT !.op = call.op, !.path = "created"]
       /\ UNCHANGED <<clone, cloneMod>>
       /\ UNCHANGED pipeFrame

\* a new process, between two reads
IxRestart == pc = "idle" /\ Restart

InitPipeline == InitCommon /\ cacheObj = "None"

NextPipeline ==
    \/ \E which \in {"fts", "folded"} : IxAccess(which)
    \/ IxCreateIndex
    \/ IxCacheHandle
    \/ IxMirror
    \/ IxExtract
    \/ \E k \in Keys : IxSetItem(k)
    \/ IxInsertRows
    \/ IxRestart
    \/ \E db \in Dbs : ModifySource(db)

SpecPipeline == InitPipeline /\ [][NextPipeline]_vars

\* ---------------------------------------------- claims on SpecPipeline
\* C22: the stages are built in dependency order: entries are written to
\* the cache only from an extraction over a clone that exists, rows are
\* written to an index only when the cache has been built, the clone is
\* created before the cache and the cache before the index, and a read
\* of an index that exists creates and writes nothing.
C22_StagesInDependencyOrder ==
    [][ /\ cacheFile'.data # cacheFile.data =>
              /\ clone # NoDb /\ ~get_all_items(clone).raised
              /\ \A k \in keys(cacheFile') :
                    get(cacheFile', k, Default) = get_all_items(clone).items[k]
        /\ (ftsFile'.rows # ftsFile.rows \/ foldedFile'.rows # foldedFile.rows)
              => (cacheFile.exists /\ clone # NoDb)
        /\ (~cacheFile.exists /\ cacheFile'.exists) => clone # NoDb
        /\ (~ftsFile.exists /\ ftsFile'.exists) => cacheFile.exists
        /\ (~foldedFile.exists /\ foldedFile'.exists) => cacheFile.exists
        /\ \A which \in {"fts", "folded"} :
              (pc = "idle" /\ ret'.op = IndexOp(which)
                 /\ IndexFile(which).exists) =>
                    UNCHANGED <<clone, cloneMod, cacheFile, backupFile,
                                ftsFile, foldedFile>>
      ]_vars

====
